---- MODULE Spec2Model ----
(***************************************************************************)
(* A model of ip.js, a batch image processor built on the jimp library.    *)
(*                                                                         *)
(* Two specifications share the module:                                    *)
(*   Spec       the body of the JIMP.read(...).then callback for one       *)
(*              decoded image, followed pixel by pixel through the four    *)
(*              image.scan loops (horror, red, green, blue), the crops     *)
(*              and the composite;                                         *)
(*   SpecBatch  the start-up check, loadFolder's walk over the directory   *)
(*              listing and the asynchronous decode and write callbacks    *)
(*              of every file, in any order.                               *)
(*                                                                         *)
(* An image is a record [width, height, data]; data is the bitmap buffer,  *)
(* a function from byte offsets 0 .. width*height*4-1 to 0 .. 255.         *)
(***************************************************************************)
EXTENDS Integers, Sequences, FiniteSets

(***************************************************************************)
(* Program constants.                                                      *)
(***************************************************************************)
X_OFFSET == 50

COMPOSITE_CROP == 50

COLOR_THRESHOLD == 100

HORROR_CAP == 100

OPAQUE == 255

\* What JavaScript yields for a read outside a Buffer (undefined), and for
\* arithmetic on it (NaN).  Every comparison with it is false, as -1 > 100 is.
undefined == -1

(***************************************************************************)
(* Bounds of the model.                                                    *)
(***************************************************************************)
\* Small images have at most MaxPixels pixels, in every shape and every mask.
MaxPixels == 9

\* Wide images reach 2*X_OFFSET + MaxExtra columns.
MaxExtra == 1

\* Wide images have 1..MaxWideH rows.
MaxWideH == 2

(***************************************************************************)
(* Images.                                                                 *)
(***************************************************************************)
\* Pixels that isPixelColored accepts: one channel just above the threshold
\* (and half transparent), a bright opaque one, white.
ColoredPixels == << <<101, 0, 0, 128>>, <<30, 200, 255, 255>>, <<255, 255, 255, 255>> >>

\* Pixels it rejects: every channel exactly at the threshold, opaque black.
UncoloredPixels == << <<100, 100, 100, 255>>, <<0, 0, 0, 255>> >>

PixelAt(mask, p, v) ==
    IF p \in mask
    THEN ColoredPixels[((p + v) % Len(ColoredPixels)) + 1]
    ELSE UncoloredPixels[((p + v) % Len(UncoloredPixels)) + 1]

\* The bitmap of a decoded file: pixel p is a colored one iff p is in mask.
Bitmap(w, h, mask, v) ==
    [width |-> w, height |-> h,
     data |-> [o \in 0 .. (w * h * 4 - 1) |-> PixelAt(mask, o \div 4, v)[(o % 4) + 1]]]

\* The shapes of the small images: every width and height with at most
\* MaxPixels pixels.
SmallShapes == { wh \in (1 .. MaxPixels) \X (1 .. MaxPixels) : wh[1] * wh[2] <= MaxPixels }

SmallImages ==
    UNION { { Bitmap(wh[1], wh[2], mask, 0) : mask \in SUBSET (0 .. (wh[1] * wh[2] - 1)) } :
            wh \in SmallShapes }

\* The widths around the crops: a crop to nothing, to one column, and the
\* widths above 2*X_OFFSET.
WideWidths == {X_OFFSET, X_OFFSET + 1} \cup ((2 * X_OFFSET + 1) .. (2 * X_OFFSET + MaxExtra))

\* A wide image repeats a tile of TilePeriod columns, shifted by one per row.
TilePeriod == 4

TiledMask(w, h, tile) ==
    { p \in 0 .. (w * h - 1) : (((p % w) + (p \div w)) % TilePeriod) \in tile }

WideImages ==
    { Bitmap(w, h, TiledMask(w, h, tile), 0) :
        <<w, h, tile>> \in WideWidths \X (1 .. MaxWideH) \X (SUBSET (0 .. (TilePeriod - 1))) }

Images == SmallImages \cup WideImages

NoImage == [width |-> 0, height |-> 0, data |-> [o \in {} |-> 0]]

(***************************************************************************)
(* Buffer access.                                                          *)
(***************************************************************************)
\* imageData[i]
Get(imageData, i) == IF i \in DOMAIN imageData THEN imageData[i] ELSE undefined

\* imageData[i] = value: a Buffer stores NaN as 0 and ignores an index
\* outside it.
ToUint8(value) == IF value = undefined THEN 0 ELSE value % 256

Put(imageData, i, value) ==
    IF i \in DOMAIN imageData THEN [imageData EXCEPT ![i] = ToUint8(value)] ELSE imageData

SetPixel(imageData, idx, r, g, b, a) ==
    Put(Put(Put(Put(imageData, idx, r), idx + 1, g), idx + 2, b), idx + 3, a)

(***************************************************************************)
(* isPixelColored and isPixelSurrounded.                                   *)
(***************************************************************************)
isPixelColored(imageData, pixel) ==
    \/ Get(imageData, pixel) > COLOR_THRESHOLD
    \/ Get(imageData, pixel + 1) > COLOR_THRESHOLD
    \/ Get(imageData, pixel + 2) > COLOR_THRESHOLD

B2N(b) == IF b THEN 1 ELSE 0

RECURSIVE isPixelSurrounded(_, _, _, _, _)
isPixelSurrounded(imageData, imageWidth, imageHeight, pixel, threshold) ==
    IF threshold = 1
    THEN LET count ==
               B2N(pixel + 4 < imageWidth * imageHeight * 4
                     /\ isPixelColored(imageData, pixel + 4))
             + B2N(pixel - 4 > 0
                     /\ isPixelColored(imageData, pixel - 4))
             + B2N(pixel - (imageWidth * 4) > 0
                     /\ isPixelColored(imageData, pixel - (imageWidth * 4)))
             + B2N(pixel + (imageWidth * 4) < imageWidth * imageHeight * 4
                     /\ isPixelColored(imageData, pixel + (imageWidth * 4)))
         IN count >= 2
    ELSE LET count ==
               B2N(pixel + (4 * threshold) < imageWidth * imageHeight * 4
                     /\ isPixelColored(imageData, pixel + (4 * threshold)))
             + B2N(pixel - (4 * threshold) > 0
                     /\ isPixelColored(imageData, pixel - (4 * threshold)))
             + B2N(pixel - (imageWidth * 4 - threshold) > 0
                     /\ isPixelColored(imageData, pixel - (imageWidth * 4) + threshold))
             + B2N(pixel + (imageWidth * 4 + threshold) < imageWidth * imageHeight * 4
                     /\ isPixelColored(imageData, pixel + (imageWidth * 4) + threshold))
         IN count >= 2
            /\ isPixelSurrounded(imageData, imageWidth, imageHeight, pixel, threshold - 1)

\* The offsets isPixelColored reads: || stops at the first channel above the
\* threshold.
ColoredReads(imageData, pixel) ==
    {pixel}
      \cup (IF Get(imageData, pixel) > COLOR_THRESHOLD THEN {} ELSE
              {pixel + 1}
                \cup (IF Get(imageData, pixel + 1) > COLOR_THRESHOLD THEN {} ELSE {pixel + 2}))

\* The offsets isPixelSurrounded(.., 1) reads: && skips isPixelColored when
\* the bounds test fails.
SurroundedReads(imageData, imageWidth, imageHeight, pixel) ==
         (IF pixel + 4 < imageWidth * imageHeight * 4
            THEN ColoredReads(imageData, pixel + 4) ELSE {})
    \cup (IF pixel - 4 > 0
            THEN ColoredReads(imageData, pixel - 4) ELSE {})
    \cup (IF pixel - (imageWidth * 4) > 0
            THEN ColoredReads(imageData, pixel - (imageWidth * 4)) ELSE {})
    \cup (IF pixel + (imageWidth * 4) < imageWidth * imageHeight * 4
            THEN ColoredReads(imageData, pixel + (imageWidth * 4)) ELSE {})

(***************************************************************************)
(* processHorrorFilter: the scan callback.                                 *)
(***************************************************************************)
\* (a + b + c) / 3; NaN when an operand is undefined.  The quotient is kept
\* as its integer part: the Buffer store truncates the minimum taken below.
Mean3(a, b, c) == IF undefined \in {a, b, c} THEN undefined ELSE (a + b + c) \div 3

SetMin(S) == CHOOSE m \in S : \A n \in S : m <= n

\* Math.min without its last argument.
MathMinUncapped(n, e, s, w) ==
    IF undefined \in {n, e, s, w} THEN undefined ELSE SetMin({n, e, s, w})

\* Math.min(north, east, south, west, 100): NaN when an argument is NaN.
MathMin(n, e, s, w) ==
    IF undefined \in {n, e, s, w} THEN undefined ELSE SetMin({n, e, s, w, HORROR_CAP})

\* The twelve means of channel c (0 red, 1 green, 2 blue) at idx, row
\* stride rs = width * 4.
northMean(d, rs, idx, c) ==
    Mean3(Get(d, idx - rs - 4 + c), Get(d, idx - rs + c), Get(d, idx - rs + 4 + c))

eastMean(d, rs, idx, c) ==
    Mean3(Get(d, idx - rs + 4 + c), Get(d, idx + 4 + c), Get(d, idx + rs + 4 + c))

southMean(d, rs, idx, c) ==
    Mean3(Get(d, idx + rs - 4 + c), Get(d, idx - rs + c), Get(d, idx - rs + 4 + c))

westMean(d, rs, idx, c) ==
    Mean3(Get(d, idx - rs - 4 + c), Get(d, idx + rs + c), Get(d, idx + rs + 4 + c))

HorrorChannel(d, rs, idx, c) ==
    MathMin(northMean(d, rs, idx, c), eastMean(d, rs, idx, c),
            southMean(d, rs, idx, c), westMean(d, rs, idx, c))

HorrorReads(rs, idx) ==
    UNION { { idx - rs - 4 + c, idx - rs + c, idx - rs + 4 + c,
              idx + 4 + c, idx + rs + 4 + c, idx + rs - 4 + c, idx + rs + c } : c \in 0 .. 2 }

horrorCallback(d, w, h, idx) ==
    IF isPixelSurrounded(d, w, h, idx, 1)
    THEN SetPixel(d, idx, HorrorChannel(d, w * 4, idx, 0), HorrorChannel(d, w * 4, idx, 1),
                  HorrorChannel(d, w * 4, idx, 2), OPAQUE)
    ELSE d

horrorAccessed(d, w, h, idx) ==
    SurroundedReads(d, w, h, idx)
      \cup (IF isPixelSurrounded(d, w, h, idx, 1)
              THEN HorrorReads(w * 4, idx) \cup (idx .. (idx + 3)) ELSE {})

(***************************************************************************)
(* processRedImage, processGreenImage, processBlueImage: the scan callback.*)
(***************************************************************************)
RedColor == <<255, 0, 0, 255>>

GreenColor == <<0, 255, 0, 255>>

BlueColor == <<0, 0, 255, 255>>

highlightCallback(d, w, h, idx, color) ==
    IF isPixelColored(d, idx)
    THEN IF isPixelSurrounded(d, w, h, idx, 1)
         THEN SetPixel(d, idx, color[1], color[2], color[3], color[4])
         ELSE d
    ELSE SetPixel(d, idx, 0, 0, 0, 0)

highlightAccessed(d, w, h, idx) ==
    ColoredReads(d, idx)
      \cup (IF isPixelColored(d, idx) THEN SurroundedReads(d, w, h, idx) ELSE {})
      \cup (IF isPixelColored(d, idx) /\ ~isPixelSurrounded(d, w, h, idx, 1)
              THEN {} ELSE idx .. (idx + 3))

(***************************************************************************)
(* jimp: crop and composite, as ip.js calls them.                          *)
(***************************************************************************)
\* image.crop(x, y, w, h): the w x h region whose top left corner is (x, y).
crop(img, x, y, w, h) ==
    [width |-> w, height |-> h,
     data |-> [o \in 0 .. (w * h * 4 - 1) |->
                 img.data[((y + ((o \div 4) \div w)) * img.width + x + ((o \div 4) % w)) * 4
                          + (o % 4)]]]

\* Whether crop throws: it allocates w*h*4 bytes, and a negative size is a
\* RangeError in the jimp releases that allocate the region's size; the
\* others return an image without pixels.
cropThrows(w, h) == IF w * h * 4 < 0 THEN {TRUE, FALSE} ELSE {FALSE}

\* Source-over blending of one pixel, opacity 1; the Buffer store truncates.
\* A result alpha of 0 divides by zero: NaN, stored as 0.
Blend(src, dst) ==
    LET den == 255 * dst[4] + 255 * src[4] - dst[4] * src[4]
    IN  IF den = 0 THEN <<0, 0, 0, 0>>
        ELSE [k \in 1 .. 4 |->
                IF k = 4 THEN den \div 255
                ELSE (src[k] * src[4] * 255 + dst[k] * dst[4] * (255 - src[4])) \div den]

PixelOf(img, x, y) ==
    [k \in 1 .. 4 |-> img.data[(y * img.width + x) * 4 + (k - 1)]]

\* base.composite(src, 0, 0)
composite(base, src) ==
    [base EXCEPT !.data =
        [o \in DOMAIN base.data |->
            LET x == (o \div 4) % base.width
                y == (o \div 4) \div base.width
            IN  IF x < src.width /\ y < src.height
                THEN Blend(PixelOf(src, x, y), PixelOf(base, x, y))[(o % 4) + 1]
                ELSE base.data[o]]]

redCrop(img) == crop(img, 0, 0, img.width - X_OFFSET, img.height)

greenCrop(img) == crop(img, 0, 0, img.width - X_OFFSET, img.height)

\* A crop that takes its third argument for the right edge.
blueCropToRightEdge(img) == crop(img, X_OFFSET, 0, img.width - 2 * X_OFFSET, img.height)

blueCrop(img) == crop(img, X_OFFSET, 0, img.width - X_OFFSET, img.height)

compositeCrop(img) == crop(img, 0, 0, img.width - COMPOSITE_CROP, img.height)

(***************************************************************************)
(* State.                                                                  *)
(***************************************************************************)
VARIABLES
    pc,              \* Spec: the position in the .then callback
    image,           \* the decoded image, which every filter clones
    work,            \* the clone the running scan mutates in place
    pos,             \* the number of pixels the running scan has visited
    accessed,        \* the byte offsets the last scan callback read or wrote
    horrorImage,     \* what processHorrorFilter returned
    redImage,        \* what processRedImage returned
    greenImage,      \* what processGreenImage returned
    blueImage,       \* what processBlueImage returned
    scanned,         \* the highlighter scans' buffers before their crops
    compositeImage,  \* originalImage after the composites and the crop
    outputs,         \* the suffixes of the files image.write was called for
    argc,            \* SpecBatch: process.argv.length
    pathKind,        \* what process.argv[2] names in the file system
    listing,         \* the entries of the directory
    bpc,             \* the position of the program
    console,         \* the diagnostics printed so far
    pending,         \* the files whose JIMP.read has not settled
    decoded,         \* the files whose .then callback ran
    caught,          \* the files whose .catch handler logged an error
    issued,          \* the <<file, path>> of every image.write call
    inflight,        \* those whose write has not completed
    written          \* the paths whose write completed

pixelVars == <<pc, image, work, pos, accessed, horrorImage, redImage, greenImage,
               blueImage, scanned, compositeImage, outputs>>

batchVars == <<argc, pathKind, listing, bpc, console, pending, decoded, caught, issued,
               inflight, written>>

vars == <<pixelVars, batchVars>>

NPixels(img) == img.width * img.height

NoScans == [red |-> NoImage, green |-> NoImage, blue |-> NoImage]

\* Spec follows one callback: the rest of the program does not move.
BatchIdle ==
    /\ argc = 3
    /\ pathKind = "directory"
    /\ listing = {}
    /\ bpc = "loaded"
    /\ console = <<>>
    /\ pending = {}
    /\ decoded = {}
    /\ caught = {}
    /\ issued = {}
    /\ inflight = {}
    /\ written = {}

(***************************************************************************)
(* Spec: the .then callback of one file, ip.js lines 57 to 75.             *)
(***************************************************************************)
Init ==
    /\ image \in Images
    /\ pc = "edge"
    /\ work = NoImage
    /\ pos = 0
    /\ accessed = {}
    /\ horrorImage = NoImage
    /\ redImage = NoImage
    /\ greenImage = NoImage
    /\ blueImage = NoImage
    /\ scanned = NoScans
    /\ compositeImage = NoImage
    /\ outputs = {}
    /\ BatchIdle

\* processEdgeDetect: clone, convolute, write.
EdgeDetect ==
    /\ UNCHANGED batchVars
    /\ pc = "edge"
    /\ pc' = "sharpen"
    /\ outputs' = outputs \cup {"-ed.png"}
    /\ UNCHANGED <<image, work, pos, accessed, horrorImage, redImage, greenImage,
                   blueImage, scanned, compositeImage>>

\* processSharpen: clone, convolute, write; then processHorrorFilter clones.
Sharpen ==
    /\ UNCHANGED batchVars
    /\ pc = "sharpen"
    /\ pc' = "horror"
    /\ outputs' = outputs \cup {"-sharpen.png"}
    /\ work' = image
    /\ pos' = 0
    /\ UNCHANGED <<image, accessed, horrorImage, redImage, greenImage, blueImage,
                   scanned, compositeImage>>

\* One call of the scan callback of the filter at pc, at pixel pos: it
\* leaves the buffer as newData and touches the offsets in touched.
ScanStep(at, newData, touched) ==
    /\ UNCHANGED batchVars
    /\ pc = at
    /\ pos < NPixels(work)
    /\ work' = [work EXCEPT !.data = newData]
    /\ accessed' = touched
    /\ pos' = pos + 1
    /\ UNCHANGED <<pc, image, horrorImage, redImage, greenImage, blueImage, scanned,
                   compositeImage, outputs>>

redCallback(d, w, h, idx) == highlightCallback(d, w, h, idx, RedColor)

greenCallback(d, w, h, idx) == highlightCallback(d, w, h, idx, GreenColor)

blueCallback(d, w, h, idx) == highlightCallback(d, w, h, idx, BlueColor)

HorrorStep ==
    ScanStep("horror", horrorCallback(work.data, work.width, work.height, pos * 4),
             horrorAccessed(work.data, work.width, work.height, pos * 4))

RedStep ==
    ScanStep("red", redCallback(work.data, work.width, work.height, pos * 4),
             highlightAccessed(work.data, work.width, work.height, pos * 4))

GreenStep ==
    ScanStep("green", greenCallback(work.data, work.width, work.height, pos * 4),
             highlightAccessed(work.data, work.width, work.height, pos * 4))

BlueStep ==
    ScanStep("blue", blueCallback(work.data, work.width, work.height, pos * 4),
             highlightAccessed(work.data, work.width, work.height, pos * 4))

\* The scan is over: write, return, and the next filter clones img.
HorrorFinish ==
    /\ UNCHANGED batchVars
    /\ pc = "horror"
    /\ pos = NPixels(work)
    /\ horrorImage' = work
    /\ outputs' = outputs \cup {"-horror.png"}
    /\ pc' = "red"
    /\ work' = image
    /\ pos' = 0
    /\ accessed' = {}
    /\ UNCHANGED <<image, redImage, greenImage, blueImage, scanned, compositeImage>>

\* The scan is over: crop, write, return.  A crop that throws leaves the
\* callback for the .catch handler, which logs the error.
RedFinish ==
    /\ UNCHANGED batchVars
    /\ pc = "red"
    /\ pos = NPixels(work)
    /\ accessed' = {}
    /\ \E throws \in cropThrows(work.width - X_OFFSET, work.height) :
          IF throws
          THEN /\ pc' = "caught"
               /\ UNCHANGED <<image, work, pos, horrorImage, redImage, greenImage,
                              blueImage, scanned, compositeImage, outputs>>
          ELSE /\ redImage' = redCrop(work)
               /\ scanned' = [scanned EXCEPT !.red = work]
               /\ outputs' = outputs \cup {"-red.png"}
               /\ pc' = "green"
               /\ work' = image
               /\ pos' = 0
               /\ UNCHANGED <<image, horrorImage, greenImage, blueImage, compositeImage>>

GreenFinish ==
    /\ UNCHANGED batchVars
    /\ pc = "green"
    /\ pos = NPixels(work)
    /\ accessed' = {}
    /\ \E throws \in cropThrows(work.width - X_OFFSET, work.height) :
          IF throws
          THEN /\ pc' = "caught"
               /\ UNCHANGED <<image, work, pos, horrorImage, redImage, greenImage,
                              blueImage, scanned, compositeImage, outputs>>
          ELSE /\ greenImage' = greenCrop(work)
               /\ scanned' = [scanned EXCEPT !.green = work]
               /\ outputs' = outputs \cup {"-green.png"}
               /\ pc' = "blue"
               /\ work' = image
               /\ pos' = 0
               /\ UNCHANGED <<image, horrorImage, redImage, blueImage, compositeImage>>

BlueFinish ==
    /\ UNCHANGED batchVars
    /\ pc = "blue"
    /\ pos = NPixels(work)
    /\ accessed' = {}
    /\ \E throws \in cropThrows(work.width - X_OFFSET, work.height) :
          IF throws
          THEN /\ pc' = "caught"
               /\ UNCHANGED <<image, work, pos, horrorImage, redImage, greenImage,
                              blueImage, scanned, compositeImage, outputs>>
          ELSE /\ blueImage' = blueCrop(work)
               /\ scanned' = [scanned EXCEPT !.blue = work]
               /\ outputs' = outputs \cup {"-blue.png"}
               /\ pc' = "composite"
               /\ work' = NoImage
               /\ pos' = 0
               /\ UNCHANGED <<image, horrorImage, redImage, greenImage, compositeImage>>

\* originalImage.composite(blueImage, 0, 0); .composite(redImage, 0, 0);
\* .crop(0, 0, width - 50, height); .write(...)
Composite ==
    /\ UNCHANGED batchVars
    /\ pc = "composite"
    /\ \E throws \in cropThrows(image.width - COMPOSITE_CROP, image.height) :
          IF throws
          THEN /\ pc' = "caught"
               /\ UNCHANGED <<compositeImage, outputs>>
          ELSE /\ compositeImage' = compositeCrop(composite(composite(image, blueImage), redImage))
               /\ outputs' = outputs \cup {"-composite.png"}
               /\ pc' = "done"
    /\ UNCHANGED <<image, work, pos, accessed, horrorImage, redImage, greenImage,
                   blueImage, scanned>>

Next ==
    \/ EdgeDetect
    \/ Sharpen
    \/ HorrorStep
    \/ HorrorFinish
    \/ RedStep
    \/ RedFinish
    \/ GreenStep
    \/ GreenFinish
    \/ BlueStep
    \/ BlueFinish
    \/ Composite

Spec == Init /\ [][Next]_vars

(***************************************************************************)
(* File names, as sequences of characters, and the string methods          *)
(* loadFolder uses on them.                                                *)
(***************************************************************************)
\* file.lastIndexOf("."): the last index (from 0) of a dot, or -1.
lastIndexOf(file, ch) ==
    LET at == { i \in 1 .. Len(file) : file[i] = ch }
    IN  IF at = {} THEN -1 ELSE (CHOOSE i \in at : \A j \in at : j <= i) - 1

Clamp(i, len) == IF i < 0 THEN 0 ELSE IF i > len THEN len ELSE i

\* file.substring(from, to): both ends clamped to the string, swapped when
\* from > to.
substring(file, from, to) ==
    LET a == Clamp(from, Len(file))
        b == Clamp(to, Len(file))
        lo == IF a <= b THEN a ELSE b
        hi == IF a <= b THEN b ELSE a
    IN  [i \in 1 .. (hi - lo) |-> file[lo + i]]

Extension(file) == substring(file, lastIndexOf(file, "."), Len(file))

Name(file) == substring(file, 0, lastIndexOf(file, "."))

IMAGE_EXTENSIONS ==
    { <<".", "p", "n", "g">>, <<".", "j", "p", "g">>, <<".", "j", "p", "e", "g">>,
      <<".", "g", "i", "f">> }

OUTPUT_DIR == <<"o", "u", "t", "p", "u", "t">>

Supported(file) == Extension(file) \in IMAGE_EXTENSIONS

\* The stages of the .then callback, in order, and the suffix each writes.
Stages == <<"edge", "sharpen", "horror", "red", "green", "blue", "composite">>

SuffixOf(stage) ==
    CASE stage = "edge" -> <<"-", "e", "d", ".", "p", "n", "g">>
      [] stage = "sharpen" -> <<"-", "s", "h", "a", "r", "p", "e", "n", ".", "p", "n", "g">>
      [] stage = "horror" -> <<"-", "h", "o", "r", "r", "o", "r", ".", "p", "n", "g">>
      [] stage = "red" -> <<"-", "r", "e", "d", ".", "p", "n", "g">>
      [] stage = "green" -> <<"-", "g", "r", "e", "e", "n", ".", "p", "n", "g">>
      [] stage = "blue" -> <<"-", "b", "l", "u", "e", ".", "p", "n", "g">>
      [] stage = "composite" ->
           <<"-", "c", "o", "m", "p", "o", "s", "i", "t", "e", ".", "p", "n", "g">>

\* OUTPUT_DIR + "/" + name + suffix
OutputPath(file, stage) == OUTPUT_DIR \o <<"/">> \o Name(file) \o SuffixOf(stage)

\* Whether a stage may throw on a w x h image: the crops are what can.
StageThrows(stage, w, h) ==
    IF stage \in {"red", "green", "blue"} THEN cropThrows(w - X_OFFSET, h)
    ELSE IF stage = "composite" THEN cropThrows(w - COMPOSITE_CROP, h)
    ELSE {FALSE}

(***************************************************************************)
(* Bounds and inputs of SpecBatch.                                         *)
(***************************************************************************)
MaxFiles == 2

DirectoryEntries ==
    { <<"a", ".", "p", "n", "g">>, <<"a", ".", "j", "p", "g">>, <<"b", ".", "j", "p", "e", "g">>,
      <<"a", ".", "b", ".", "g", "i", "f">>, <<"a", ".", "P", "N", "G">>,
      <<"a", ".", "t", "x", "t">>, <<"p", "n", "g">>, <<".", "g", "i", "f">> }

Listings == { l \in SUBSET DirectoryEntries : Cardinality(l) <= MaxFiles }

PathKinds == {"missing", "file", "unreadable directory", "directory"}

\* The widths of the images the files decode to (one row each).
DecodedWidths == {X_OFFSET - 1, X_OFFSET, 2 * X_OFFSET + 1}

\* FS.existsSync(process.argv[2])
existsSync(kind) == kind # "missing"

\* FS.readdirSync(folder) throws ENOTDIR or EACCES.
readdirThrows(kind) == kind \in {"file", "unreadable directory"}

(***************************************************************************)
(* SpecBatch: start-up, loadFolder and the asynchronous callbacks.         *)
(***************************************************************************)
PixelIdle ==
    /\ pc = "idle"
    /\ image = NoImage
    /\ work = NoImage
    /\ pos = 0
    /\ accessed = {}
    /\ horrorImage = NoImage
    /\ redImage = NoImage
    /\ greenImage = NoImage
    /\ blueImage = NoImage
    /\ scanned = NoScans
    /\ compositeImage = NoImage
    /\ outputs = {}

InitBatch ==
    /\ argc \in {2, 3}
    /\ pathKind \in PathKinds
    /\ listing \in (IF argc = 3 /\ pathKind = "directory" THEN Listings ELSE {{}})
    /\ bpc = "start"
    /\ console = <<>>
    /\ pending = {}
    /\ decoded = {}
    /\ caught = {}
    /\ issued = {}
    /\ inflight = {}
    /\ written = {}
    /\ PixelIdle

\* Lines 39, 40 and loadFolder: readdirSync, then one JIMP.read per file
\* with a supported extension.  An exception of readdirSync is not caught.
LoadFolder ==
    /\ bpc = "start"
    /\ argc >= 3 /\ existsSync(pathKind)
    /\ IF readdirThrows(pathKind)
       THEN /\ bpc' = "crashed"
            /\ console' = Append(console, "Loading folder")
            /\ UNCHANGED pending
       ELSE /\ bpc' = "loaded"
            /\ console' = Append(console, "Loading folder")
            /\ pending' = { f \in listing : Supported(f) }
    /\ UNCHANGED <<argc, pathKind, listing, decoded, caught, issued, inflight, written>>
    /\ UNCHANGED pixelVars

\* Lines 41, 42 and errorHandle.
ErrorHandle ==
    /\ bpc = "start"
    /\ ~(argc >= 3 /\ existsSync(pathKind))
    /\ bpc' = "exited"
    /\ console' = console \o <<"Error loading from folder.",
                               IF argc >= 3
                               THEN "Folder not found or could not be read."
                               ELSE "No folder name found; check arguments.">>
    /\ UNCHANGED <<argc, pathKind, listing, pending, decoded, caught, issued, inflight, written>>
    /\ UNCHANGED pixelVars

\* JIMP.read(file) resolves with a w x 1 image and the .then callback runs:
\* the stages before stage number `stop` write their outputs, and stage
\* `stop`, if there is one, throws into the .catch handler.
DecodeResolve(file, w, stop) ==
    /\ bpc = "loaded"
    /\ file \in pending
    /\ \A k \in 1 .. (stop - 1) : FALSE \in StageThrows(Stages[k], w, 1)
    /\ stop <= Len(Stages) => TRUE \in StageThrows(Stages[stop], w, 1)
    /\ pending' = pending \ {file}
    /\ decoded' = decoded \cup {file}
    /\ caught' = IF stop <= Len(Stages) THEN caught \cup {file} ELSE caught
    /\ issued' = issued \cup { <<file, OutputPath(file, Stages[k])>> : k \in 1 .. (stop - 1) }
    /\ inflight' = inflight \cup { <<file, OutputPath(file, Stages[k])>> : k \in 1 .. (stop - 1) }
    /\ UNCHANGED <<argc, pathKind, listing, bpc, console, written>>
    /\ UNCHANGED pixelVars

\* JIMP.read(file) rejects: the .catch handler logs the error.
DecodeReject(file) ==
    /\ bpc = "loaded"
    /\ file \in pending
    /\ pending' = pending \ {file}
    /\ caught' = caught \cup {file}
    /\ UNCHANGED <<argc, pathKind, listing, bpc, console, decoded, issued, inflight, written>>
    /\ UNCHANGED pixelVars

\* An image.write completes.
WriteDone(fp) ==
    /\ fp \in inflight
    /\ inflight' = inflight \ {fp}
    /\ written' = written \cup {fp[2]}
    /\ UNCHANGED <<argc, pathKind, listing, bpc, console, pending, decoded, caught, issued>>
    /\ UNCHANGED pixelVars

NextBatch ==
    \/ LoadFolder
    \/ ErrorHandle
    \/ \E file \in listing, w \in DecodedWidths, stop \in 1 .. (Len(Stages) + 1) :
          DecodeResolve(file, w, stop)
    \/ \E file \in listing : DecodeReject(file)
    \/ \E fp \in inflight : WriteDone(fp)

SpecBatch == InitBatch /\ [][NextBatch]_vars

(***************************************************************************)
(* Vocabulary of the properties.                                           *)
(***************************************************************************)
Scanning == pc \in {"horror", "red", "green", "blue"}

ScanOver == Scanning /\ pos = NPixels(work)

HighlightColorAt(at) ==
    IF at = "red" THEN RedColor ELSE IF at = "green" THEN GreenColor ELSE BlueColor

Pixels(img) == 0 .. (NPixels(img) - 1)

\* The four bytes of pixel p of a buffer.
Quad(d, p) == [k \in 1 .. 4 |-> d[p * 4 + (k - 1)]]

Transparent == <<0, 0, 0, 0>>

\* Pixel (x, y) of img is inside it and has a channel above the threshold.
ColoredAt(img, x, y) ==
    /\ x \in 0 .. (img.width - 1)
    /\ y \in 0 .. (img.height - 1)
    /\ \E c \in 0 .. 2 : img.data[(y * img.width + x) * 4 + c] > COLOR_THRESHOLD

\* At least two of the axis-adjacent pixels of pixel p that lie inside img
\* are colored.
TwoColoredNeighbours(img, p) ==
    LET x == p % img.width
        y == p \div img.width
    IN  B2N(ColoredAt(img, x + 1, y)) + B2N(ColoredAt(img, x - 1, y))
          + B2N(ColoredAt(img, x, y - 1)) + B2N(ColoredAt(img, x, y + 1)) >= 2

\* The working buffer of a scan as it was when the scan reached offset idx:
\* the offsets below idx as the scan left them, the others as in the input.
BufferAt(in, out, idx) == [o \in DOMAIN in |-> IF o < idx THEN out[o] ELSE in[o]]

SurroundedInInput(p) == isPixelSurrounded(image.data, image.width, image.height, p * 4, 1)

SurroundedWhenVisited(p) ==
    isPixelSurrounded(BufferAt(image.data, work.data, p * 4), image.width, image.height, p * 4, 1)

\* The four triples of offsets whose bytes the filter averages for the
\* channel at offset idx + c: north, east, south, west.
DirectionalTriples(rs, at) ==
    { <<at - rs - 4, at - rs, at - rs + 4>>, <<at - rs + 4, at + 4, at + rs + 4>>,
      <<at + rs - 4, at - rs, at - rs + 4>>, <<at - rs - 4, at + rs, at + rs + 4>> }

\* The integer part of the least of 100 and the four averages taken in buf,
\* or 0 when an averaged byte lies outside buf.
LeastAverage(buf, rs, at) ==
    IF \E t \in DirectionalTriples(rs, at) : \E i \in 1 .. 3 : t[i] \notin DOMAIN buf
    THEN 0
    ELSE SetMin({HORROR_CAP}
                  \cup { (buf[t[1]] + buf[t[2]] + buf[t[3]]) \div 3 : t \in DirectionalTriples(rs, at) })

HorrorRewritten(p) ==
    /\ work.data[p * 4 + 3] = OPAQUE
    /\ \A c \in 0 .. 2 : work.data[p * 4 + c] <= HORROR_CAP

(***************************************************************************)
(* C1.  After a ChannelHighlighter scan and before the crop, every pixel   *)
(* is the opaque highlight colour if it is colored and surrounded in the   *)
(* input image, and transparent black in every other case.                 *)
(***************************************************************************)
C1_HighlightOrTransparent ==
    (ScanOver /\ pc # "horror") =>
        \A p \in Pixels(image) :
            Quad(work.data, p) =
                IF isPixelColored(image.data, p * 4) /\ SurroundedInInput(p)
                THEN HighlightColorAt(pc) ELSE Transparent

(***************************************************************************)
(* C2.  At every call the scans make, isPixelSurrounded(.., 1) is true iff *)
(* at least two of the axis-adjacent pixels inside the image are colored.  *)
(***************************************************************************)
C2_SurroundedIsGeometric ==
    (Scanning /\ pos < NPixels(work)) =>
        (isPixelSurrounded(work.data, work.width, work.height, pos * 4, 1)
            <=> TwoColoredNeighbours(work, pos))

(***************************************************************************)
(* C3.  Every read and write of a scan callback uses a byte offset inside  *)
(* [0, width*height*4).                                                    *)
(***************************************************************************)
C3_AccessInBounds ==
    Scanning => accessed \subseteq 0 .. (NPixels(work) * 4 - 1)

(***************************************************************************)
(* C4, as claimed.  When the HorrorFilter scan is over, a pixel surrounded *)
(* in the input image has alpha 255 and R, G, B at most 100, and every     *)
(* other pixel is byte-identical to the input.                             *)
(***************************************************************************)
C4_RewrittenIffSurroundedInInput ==
    (ScanOver /\ pc = "horror") =>
        \A p \in Pixels(image) :
            IF SurroundedInInput(p)
            THEN HorrorRewritten(p)
            ELSE Quad(work.data, p) = Quad(image.data, p)

(***************************************************************************)
(* C4, amended.  When the HorrorFilter scan is over, a pixel that was      *)
(* surrounded in the working buffer when the scan reached it (the pixels   *)
(* visited before it as rewritten, the others as in the input) has alpha   *)
(* 255 and R, G, B at most 100: the least of 100 and the four directional  *)
(* averages in that buffer, or 0 when an averaged byte lies outside it.    *)
(* Every other pixel is byte-identical to the input.                       *)
(***************************************************************************)
C4_RewrittenIffSurroundedWhenVisited ==
    (ScanOver /\ pc = "horror") =>
        \A p \in Pixels(image) :
            IF SurroundedWhenVisited(p)
            THEN /\ HorrorRewritten(p)
                 /\ \A c \in 0 .. 2 :
                       work.data[p * 4 + c]
                         = LeastAverage(BufferAt(image.data, work.data, p * 4),
                                        image.width * 4, p * 4 + c)
            ELSE Quad(work.data, p) = Quad(image.data, p)

\* The scan is over, a pixel was rewritten to averages of bytes inside the
\* buffer, and a pixel surrounded in the input was left as it was, above 100.
C4_Witness ==
    /\ ScanOver /\ pc = "horror"
    /\ \E p \in Pixels(image) :
          /\ SurroundedWhenVisited(p)
          /\ Quad(work.data, p) # Quad(image.data, p)
          /\ \E c \in 0 .. 2 : work.data[p * 4 + c] > 0
    /\ \E p \in Pixels(image) :
          /\ SurroundedInInput(p)
          /\ ~SurroundedWhenVisited(p)
          /\ ~HorrorRewritten(p)

\* The image made of the columns [from, to) of img, all rows.
Columns(img, from, to) ==
    [width |-> to - from, height |-> img.height,
     data |-> [o \in 0 .. ((to - from) * img.height * 4 - 1) |->
                 LET q == o \div 4
                 IN  PixelOf(img, from + (q % (to - from)), q \div (to - from))[(o % 4) + 1]]]

(***************************************************************************)
(* C5, as claimed.  For an input wider than 100, the Red and Green outputs *)
(* are the scanned columns [0, W-50) and the Blue output is the scanned    *)
(* columns [50, W-50), of width W-100.                                     *)
(***************************************************************************)
C5_BlueTrimmedOnBothSides ==
    (pc = "composite" /\ image.width > 2 * X_OFFSET) =>
        /\ redImage = Columns(scanned.red, 0, image.width - X_OFFSET)
        /\ greenImage = Columns(scanned.green, 0, image.width - X_OFFSET)
        /\ blueImage = Columns(scanned.blue, X_OFFSET, image.width - X_OFFSET)

(***************************************************************************)
(* C5, amended.  For an input wider than 100, the Red and Green outputs    *)
(* are the scanned columns [0, W-50) and the Blue output is the scanned    *)
(* columns [50, W): 50 pixels trimmed from the left only, width W-50.      *)
(***************************************************************************)
C5_BlueTrimmedOnTheLeft ==
    (pc = "composite" /\ image.width > 2 * X_OFFSET) =>
        /\ redImage = Columns(scanned.red, 0, image.width - X_OFFSET)
        /\ greenImage = Columns(scanned.green, 0, image.width - X_OFFSET)
        /\ blueImage = Columns(scanned.blue, X_OFFSET, image.width)
        /\ redImage.width = image.width - X_OFFSET
        /\ greenImage.width = image.width - X_OFFSET
        /\ blueImage.width = image.width - X_OFFSET

\* The three highlighters returned for an input wider than 100 whose scans
\* left highlighted, transparent and untouched pixels, and whose first and
\* last 50 columns differ after the blue scan.
C5_Witness ==
    /\ pc = "composite"
    /\ image.width > 2 * X_OFFSET
    /\ \E p \in Pixels(redImage) : Quad(redImage.data, p) = RedColor
    /\ \E p \in Pixels(greenImage) : Quad(greenImage.data, p) = Transparent
    /\ \E p \in Pixels(blueImage) : Quad(blueImage.data, p) = BlueColor
    /\ \E p \in Pixels(blueImage) : Quad(blueImage.data, p) \notin {BlueColor, Transparent}
    /\ Columns(scanned.blue, 0, X_OFFSET)
         # Columns(scanned.blue, image.width - X_OFFSET, image.width)

(***************************************************************************)
(* C6.  For an input wider than 50 the composite is (W-50) x H; where the  *)
(* Red result is opaque the composite pixel is the Red pixel, otherwise    *)
(* where the Blue result is opaque it is the Blue pixel, and where both    *)
(* are fully transparent it is the pixel of the decoded image.             *)
(***************************************************************************)
C6_CompositeLayers ==
    (pc = "done" /\ image.width > COMPOSITE_CROP) =>
        /\ compositeImage.width = image.width - COMPOSITE_CROP
        /\ compositeImage.height = image.height
        /\ \A p \in Pixels(compositeImage) :
              LET r == Quad(redImage.data, p)
                  b == Quad(blueImage.data, p)
                  c == Quad(compositeImage.data, p)
                  x == p % compositeImage.width
                  y == p \div compositeImage.width
              IN  IF r[4] = OPAQUE THEN c = r
                  ELSE IF b[4] = OPAQUE THEN c = b
                  ELSE (r = Transparent /\ b = Transparent) => c = PixelOf(image, x, y)

(***************************************************************************)
(* C9.  For every image of positive width and height, each highlighter     *)
(* completes without error and returns an image of positive width and      *)
(* height whose data has width*height*4 bytes.                             *)
(***************************************************************************)
ValidImage(img) ==
    /\ img.width > 0
    /\ img.height > 0
    /\ DOMAIN img.data = 0 .. (img.width * img.height * 4 - 1)

C9_HighlightersReturnValidImages ==
    /\ ~(pc = "caught" /\ "-blue.png" \notin outputs)
    /\ "-red.png" \in outputs => ValidImage(redImage)
    /\ "-green.png" \in outputs => ValidImage(greenImage)
    /\ "-blue.png" \in outputs => ValidImage(blueImage)

Printed(line) == \E i \in 1 .. Len(console) : console[i] = line

NothingProcessed == pending = {} /\ decoded = {} /\ issued = {}

Settled == bpc = "loaded" /\ pending = {} /\ inflight = {}

(***************************************************************************)
(* C7.  Whatever files fail to decode and in whatever order the callbacks  *)
(* run, every failure is caught and logged and, once every callback and    *)
(* write has completed, every file that decoded has its seven outputs      *)
(* written.                                                                *)
(***************************************************************************)
C7_EveryDecodedFileHasSevenOutputs ==
    Settled =>
        /\ \A file \in listing : (Supported(file) /\ file \notin decoded) => file \in caught
        /\ \A file \in decoded :
              \A k \in 1 .. Len(Stages) : OutputPath(file, Stages[k]) \in written

(***************************************************************************)
(* C8.  Without an argument the program prints the 'no argument'           *)
(* diagnostic; with an argument whose path is missing or cannot be read as *)
(* a directory it prints the 'path' diagnostic; never the other one, and   *)
(* in both cases nothing is decoded or written.                            *)
(***************************************************************************)
C8_StartupDiagnostics ==
    bpc # "start" =>
        /\ argc < 3 =>
              /\ Printed("No folder name found; check arguments.")
              /\ ~Printed("Folder not found or could not be read.")
              /\ NothingProcessed
        /\ (argc >= 3 /\ pathKind # "directory") =>
              /\ Printed("Folder not found or could not be read.")
              /\ ~Printed("No folder name found; check arguments.")
              /\ NothingProcessed

(***************************************************************************)
(* C10.  No two distinct files of the directory write to the same output   *)
(* path.                                                                   *)
(***************************************************************************)
C10_OutputPathsDisjoint ==
    \A fp \in issued, gq \in issued : fp[2] = gq[2] => fp[1] = gq[1]

====
